---- MODULE Spec2Model ----
(***************************************************************************)
(* Model of crates/next-api/src/dynamic_imports.rs and                     *)
(* crates/next-api/src/loadable_manifest.rs: the next/dynamic scanner      *)
(* (DynamicImportVisitor, CollectImportSourceVisitor), the resolver loop   *)
(* of build_dynamic_imports_map_for_module, the graph classifier           *)
(* map_next_dynamic, the aggregator collect_next_dynamic_chunks and the     *)
(* emitter create_react_loadable_manifest.                                 *)
(***************************************************************************)
EXTENDS Integers, Sequences, FiniteSets, TLC

VARIABLES
    \* ---- scanner (DynamicImportVisitor over one parsed program)
    program,            \* the parsed module: a sequence of module items
    scan_pc,            \* "idle" | "visiting" | "scanned"
    pos,                \* index of the next module item to visit
    dynamic_ident,      \* DynamicImportVisitor.dynamic_ident : Option<Ident>
    import_sources,     \* DynamicImportVisitor.import_sources : Vec<RcStr>
    \* ---- build_dynamic_imports_map_for_module
    asset,              \* what server_module is: "not_parsable" | "parse_error" | "parsed"
    esm_resolve,        \* the resolution service: literal -> outcome of first_module()
    build_pc,           \* "idle" | "entry" | "resolving" | "returned"
    resolved_sources,   \* the local import_sources : Vec<(RcStr, Module)>
    build_result,       \* the value returned
    \* ---- map_next_dynamic
    graph,              \* the nodes of the SingleModuleGraph, in enumeration order
    map_pc,             \* "idle" | "mapping" | "returned"
    actions,            \* per node: Pending, or what its closure returned
    dynamic_entries,    \* the DynamicImportEntries returned (an index map)
    \* ---- collect_next_dynamic_chunks and create_react_loadable_manifest
    dynamic_import_entries,   \* the (entry module, parent client reference) pairs
    client_reference_chunks,  \* Option<&ClientReferencesChunks>
    failing,                  \* the chunking-service call that fails, if any
    module_ids,               \* the chunk item id of every entry module
    client_relative_path,     \* the client output root, as path segments
    chunks_pc,                \* "idle" | "joining" | "returned" | "emitting" | "written"
    futures,                  \* per entry: Pending, or what its closure returned
    availability,             \* per entry: the availability info given to the loader
    dynamic_import_chunks,    \* what collect_next_dynamic_chunks returned
    emitted,                  \* entries of the index map the emitter has processed
    loadable_manifest,        \* HashMap<RcStr, LoadableManifest>
    document,                 \* the serialized manifest: its members in text order
    run,                      \* which build this is
    previous_document         \* the document of the build before

scan_vars == <<program, scan_pc, pos, dynamic_ident, import_sources>>
build_vars == <<asset, esm_resolve, build_pc, resolved_sources, build_result>>
map_vars == <<graph, map_pc, actions, dynamic_entries>>
input_vars ==
    <<dynamic_import_entries, client_reference_chunks, failing, module_ids,
      client_relative_path>>
chunk_vars == <<chunks_pc, futures, availability, dynamic_import_chunks>>
emit_vars == <<emitted, loadable_manifest, document>>
build_no_vars == <<run, previous_document>>
manifest_vars == <<input_vars, chunk_vars, emit_vars, build_no_vars>>

vars == <<scan_vars, build_vars, map_vars, manifest_vars>>

\* ------------------------------------------------------------------ Option
None == [some |-> FALSE]
\* A future that has not completed.
Pending == [pending |-> TRUE]
Some(v) == [some |-> TRUE, v |-> v]

\* --------------------------------------------------------------------- AST
\* The closed set of swc node variants the two visitors distinguish.
Str(s) == [k |-> "Str", value |-> s]
Ident(s) == [k |-> "Ident", sym |-> s]
Arrow(b) == [k |-> "Arrow", body |-> b]
CalleeImport == [k |-> "Import"]
Call(c, a) == [k |-> "Call", callee |-> c, args |-> a]
Default(l) == [kind |-> "default", local |-> l]
Named(l) == [kind |-> "named", local |-> l]
ImportDecl(src, specifiers) == [k |-> "ImportDecl", src |-> src, specifiers |-> specifiers]
ExprStmt(e) == [k |-> "ExprStmt", expr |-> e]

\* -------------------------------------------------------------- the bounds
MaxItems == 3
MaxSources == 3
MaxNodes == 2
MaxEntries == 2

\* ------------------------------------------------------------------ inputs
\* L(() => import(s))
Wrapped(l, s) == Call(Ident(l), <<Arrow(Call(CalleeImport, <<Str(s)>>))>>)

ImportDecls ==
    { ImportDecl("next/dynamic", <<Default("L")>>),
      ImportDecl("next/dynamic", <<Default("M")>>),
      ImportDecl("next/dynamic", <<Named("N")>>),
      ImportDecl("next/dynamic", <<Default("K"), Named("P")>>),
      ImportDecl("other", <<Default("f")>>) }

Stmts ==
    { ExprStmt(Wrapped("L", "./x")),
      ExprStmt(Wrapped("M", "./y")),
      ExprStmt(Call(CalleeImport, <<Str("./y")>>)),
      ExprStmt(Call(Ident("f"), <<Wrapped("L", "./x"), Wrapped("L", "./y")>>)),
      ExprStmt(Call(Ident("L"), <<Wrapped("L", "./y")>>)),
      ExprStmt(Call(Ident("L"), <<Arrow(Call(CalleeImport, <<Ident("v")>>))>>)),
      ExprStmt(Call(Wrapped("L", "./x"), <<Call(CalleeImport, <<Wrapped("K", "./y")>>)>>)),
      ExprStmt(Call(Ident("L"),
                    <<Call(Ident("f"), <<Arrow(Call(CalleeImport, <<Str("./x")>>))>>)>>)),
      ExprStmt(Call(Ident("L"), <<Arrow(Call(CalleeImport, <<Str("./x")>>)),
                                  Arrow(Call(CalleeImport, <<Str("./y")>>))>>)) }

Items == ImportDecls \cup Stmts

\* A program that parses binds every local name at most once.
ValidProgram(p) ==
    \A i, j \in 1..Len(p) :
        (i # j /\ p[i].k = "ImportDecl" /\ p[j].k = "ImportDecl") => p[i] # p[j]

Programs ==
    { p \in UNION { [1..n -> Items] : n \in 0..MaxItems } : ValidProgram(p) }

\* ----------------------------------------------------------------- scanner
\* CollectImportSourceVisitor::visit_call_expr: an import() call whose first
\* argument is a string literal sets import_source; children are not visited.
CollectImportSourceVisitor_visit_call_expr(call_expr, import_source) ==
    IF call_expr.callee.k = "Import"
       /\ Len(call_expr.args) > 0
       /\ call_expr.args[1].k = "Str"
    THEN Some(call_expr.args[1].value)
    ELSE import_source

\* The derived traversal of CollectImportSourceVisitor over an expression:
\* every node kind but a call is descended into.
RECURSIVE CollectVisitExpr(_, _)
CollectVisitExpr(e, import_source) ==
    CASE e.k = "Call" -> CollectImportSourceVisitor_visit_call_expr(e, import_source)
      [] e.k = "Arrow" -> CollectVisitExpr(e.body, import_source)
      [] OTHER -> import_source

RECURSIVE CollectVisitArgs(_, _, _)
CollectVisitArgs(args, i, import_source) ==
    IF i > Len(args) THEN import_source
    ELSE CollectVisitArgs(args, i + 1, CollectVisitExpr(args[i], import_source))

\* call_expr.visit_children_with(&mut collect_import_source_visitor)
CollectVisitChildren(call_expr) ==
    LET after_callee ==
            IF call_expr.callee.k = "Import" THEN None
            ELSE CollectVisitExpr(call_expr.callee, None)
    IN CollectVisitArgs(call_expr.args, 1, after_callee)

\* A mutant: the callee's name is not compared with the tracked binding.
CalleeMatchesAnyIdent(call_expr, ident) ==
    /\ call_expr.callee.k = "Ident"
    /\ ident.some

\* The guard of DynamicImportVisitor::visit_call_expr: the callee is an
\* identifier whose sym equals the sym of the tracked binding.
CalleeMatches(call_expr, ident) ==
    /\ call_expr.callee.k = "Ident"
    /\ ident.some
    /\ call_expr.callee.sym = ident.v

\* DynamicImportVisitor::visit_call_expr and the derived traversal around it;
\* the result is what the visit appends to import_sources.
RECURSIVE DynVisitExpr(_, _)
RECURSIVE DynVisitArgs(_, _, _)
\* A mutant: a matching call is handled and its children are not walked.
visit_call_expr_without_descent(call_expr, ident) ==
    IF CalleeMatches(call_expr, ident)
    THEN LET found == CollectVisitChildren(call_expr)
         IN IF found.some THEN <<found.v>> ELSE <<>>
    ELSE (IF call_expr.callee.k = "Import" THEN <<>>
          ELSE DynVisitExpr(call_expr.callee, ident))
         \o DynVisitArgs(call_expr.args, 1, ident)

DynamicImportVisitor_visit_call_expr(call_expr, ident) ==
    LET found == IF CalleeMatches(call_expr, ident)
                 THEN CollectVisitChildren(call_expr)
                 ELSE None
        pushed == IF found.some THEN <<found.v>> ELSE <<>>
        in_callee == IF call_expr.callee.k = "Import" THEN <<>>
                     ELSE DynVisitExpr(call_expr.callee, ident)
    IN pushed \o in_callee \o DynVisitArgs(call_expr.args, 1, ident)

DynVisitExpr(e, ident) ==
    CASE e.k = "Call" -> DynamicImportVisitor_visit_call_expr(e, ident)
      [] e.k = "Arrow" -> DynVisitExpr(e.body, ident)
      [] OTHER -> <<>>

DynVisitArgs(args, i, ident) ==
    IF i > Len(args) THEN <<>>
    ELSE DynVisitExpr(args[i], ident) \o DynVisitArgs(args, i + 1, ident)

\* A mutant: the first wrapper import wins, later ones are ignored.
visit_import_decl_first_wins(decl, ident) ==
    IF decl.src = "next/dynamic"
       /\ Len(decl.specifiers) > 0
       /\ decl.specifiers[1].kind = "default"
       /\ ~ident.some
    THEN Some(decl.specifiers[1].local)
    ELSE ident

\* DynamicImportVisitor::visit_import_decl: the new value of dynamic_ident.
visit_import_decl(decl, ident) ==
    IF decl.src = "next/dynamic"
       /\ Len(decl.specifiers) > 0
       /\ decl.specifiers[1].kind = "default"
    THEN Some(decl.specifiers[1].local)
    ELSE ident

ScanIdle ==
    /\ program = <<>>
    /\ scan_pc = "idle"
    /\ pos = 1
    /\ dynamic_ident = None
    /\ import_sources = <<>>

BuildIdle ==
    /\ asset = "none"
    /\ esm_resolve = <<>>
    /\ build_pc = "idle"
    /\ resolved_sources = <<>>
    /\ build_result = None

MapIdle ==
    /\ graph = <<>>
    /\ map_pc = "idle"
    /\ actions = <<>>
    /\ dynamic_entries = <<>>

ManifestIdle ==
    /\ dynamic_import_entries = <<>>
    /\ client_reference_chunks = None
    /\ failing = None
    /\ module_ids = <<>>
    /\ client_relative_path = <<>>
    /\ chunks_pc = "idle"
    /\ futures = <<>>
    /\ availability = <<>>
    /\ dynamic_import_chunks = None
    /\ emitted = 0
    /\ loadable_manifest = <<>>
    /\ document = None
    /\ run = 1
    /\ previous_document = None

ScanInit ==
    /\ BuildIdle
    /\ MapIdle
    /\ ManifestIdle
    /\ program \in Programs
    /\ scan_pc = "visiting"
    /\ pos = 1
    /\ dynamic_ident = None
    /\ import_sources = <<>>

\* program.visit_with(&mut visitor) reaches an import declaration.
VisitImportDecl ==
    /\ scan_pc = "visiting"
    /\ pos <= Len(program)
    /\ program[pos].k = "ImportDecl"
    /\ dynamic_ident' = visit_import_decl(program[pos], dynamic_ident)
    /\ pos' = pos + 1
    /\ UNCHANGED <<program, scan_pc, import_sources, build_vars, map_vars, manifest_vars>>

\* program.visit_with(&mut visitor) reaches a statement and walks it.
VisitStmt ==
    /\ scan_pc = "visiting"
    /\ pos <= Len(program)
    /\ program[pos].k = "ExprStmt"
    /\ import_sources' = import_sources \o DynVisitExpr(program[pos].expr, dynamic_ident)
    /\ pos' = pos + 1
    /\ UNCHANGED <<program, scan_pc, dynamic_ident, build_vars, map_vars, manifest_vars>>

\* The traversal returns to build_dynamic_imports_map_for_module.
ScanEnd ==
    /\ scan_pc = "visiting"
    /\ pos > Len(program)
    /\ scan_pc' = "scanned"
    /\ UNCHANGED <<program, pos, dynamic_ident, import_sources, build_vars, map_vars, manifest_vars>>

ScanNext == VisitImportDecl \/ VisitStmt \/ ScanEnd

SpecScan == ScanInit /\ [][ScanNext]_vars

\* ------------------------------------ build_dynamic_imports_map_for_module
Literals == {"./x", "./y", "./z"}
Modules == {"H", "G"}

Ok(v) == [ok |-> TRUE, v |-> v]
Err == [ok |-> FALSE]

\* first_module().await: an error of the resolution task, no module, or one.
ResolveOutcomes == {Err, Ok(None)} \cup { Ok(Some(m)) : m \in Modules }

\* import L from 'next/dynamic', then one L(() => import(s)) per literal.
ProgramOf(lits) ==
    <<ImportDecl("next/dynamic", <<Default("L")>>)>>
    \o [i \in 1..Len(lits) |-> ExprStmt(Wrapped("L", lits[i]))]

BuildPrograms ==
    { ProgramOf(lits) : lits \in UNION { [1..n -> Literals] : n \in 0..MaxSources } }

\* DynamicImportVisitor::new() and program.visit_with(&mut visitor): the
\* visitor after the items from i on, as <<dynamic_ident, import_sources>>.
RECURSIVE visit_with(_, _, _, _)
visit_with(p, i, ident, sources) ==
    IF i > Len(p) THEN <<ident, sources>>
    ELSE IF p[i].k = "ImportDecl"
         THEN visit_with(p, i + 1, visit_import_decl(p[i], ident), sources)
         ELSE visit_with(p, i + 1, ident, sources \o DynVisitExpr(p[i].expr, ident))

BuildInit ==
    /\ MapIdle
    /\ ManifestIdle
    /\ program \in BuildPrograms
    /\ scan_pc = "idle"
    /\ pos = 1
    /\ dynamic_ident = None
    /\ import_sources = <<>>
    /\ asset \in {"not_parsable", "parse_error", "parsed"}
    /\ esm_resolve \in [Literals -> ResolveOutcomes]
    /\ build_pc = "entry"
    /\ resolved_sources = <<>>
    /\ build_result = None

\* try_sidecast::<Box<dyn EcmascriptParsable>> yields None.
NotParsable ==
    /\ build_pc = "entry"
    /\ asset = "not_parsable"
    /\ build_pc' = "returned"
    /\ build_result' = Some(Ok(None))
    /\ UNCHANGED <<scan_vars, asset, esm_resolve, resolved_sources, map_vars, manifest_vars>>

\* failsafe_parse() is not ParseResult::Ok.
ParseFailed ==
    /\ build_pc = "entry"
    /\ asset = "parse_error"
    /\ build_pc' = "returned"
    /\ build_result' = Some(Ok(None))
    /\ UNCHANGED <<scan_vars, asset, esm_resolve, resolved_sources, map_vars, manifest_vars>>

\* The program is scanned; an empty result returns None.
ScanProgram ==
    /\ build_pc = "entry"
    /\ asset = "parsed"
    /\ LET visitor == visit_with(program, 1, None, <<>>)
       IN /\ dynamic_ident' = visitor[1]
          /\ import_sources' = visitor[2]
          /\ IF visitor[2] = <<>>
             THEN build_pc' = "returned" /\ build_result' = Some(Ok(None))
             ELSE build_pc' = "resolving" /\ UNCHANGED build_result
    /\ pos' = Len(program) + 1
    /\ scan_pc' = "scanned"
    /\ UNCHANGED <<program, asset, esm_resolve, resolved_sources, map_vars, manifest_vars>>

\* A mutant: the loop stops at the first literal that has no module.
AfterResolveBreaks(import, outcome) ==
    IF ~outcome.ok
    THEN [pc |-> "returned", rest |-> <<>>, pairs |-> resolved_sources,
          result |-> Some(Err)]
    ELSE IF outcome.v.some
         THEN [pc |-> "resolving", rest |-> Tail(import_sources),
               pairs |-> Append(resolved_sources, <<import, outcome.v.v>>),
               result |-> build_result]
         ELSE [pc |-> "resolving", rest |-> <<>>, pairs |-> resolved_sources,
               result |-> build_result]

\* One iteration of the loop over visitor.import_sources.drain(..): `?` on
\* the resolution returns the error, a module is pushed with its literal,
\* no module pushes nothing.
AfterResolve(import, outcome) ==
    IF ~outcome.ok
    THEN [pc |-> "returned", rest |-> <<>>, pairs |-> resolved_sources,
          result |-> Some(Err)]
    ELSE IF outcome.v.some
         THEN [pc |-> "resolving", rest |-> Tail(import_sources),
               pairs |-> Append(resolved_sources, <<import, outcome.v.v>>),
               result |-> build_result]
         ELSE [pc |-> "resolving", rest |-> Tail(import_sources),
               pairs |-> resolved_sources, result |-> build_result]

ResolveImport ==
    /\ build_pc = "resolving"
    /\ import_sources # <<>>
    /\ LET import == Head(import_sources)
           next == AfterResolve(import, esm_resolve[import])
       IN /\ build_pc' = next.pc
          /\ import_sources' = next.rest
          /\ resolved_sources' = next.pairs
          /\ build_result' = next.result
    /\ UNCHANGED <<program, scan_pc, pos, dynamic_ident, asset, esm_resolve, map_vars, manifest_vars>>

\* Ok(Vc::cell(Some((server_module, import_sources))))
ReturnMap ==
    /\ build_pc = "resolving"
    /\ import_sources = <<>>
    /\ build_pc' = "returned"
    /\ build_result' = Some(Ok(Some(resolved_sources)))
    /\ UNCHANGED <<scan_vars, asset, esm_resolve, resolved_sources, map_vars, manifest_vars>>

BuildNext == NotParsable \/ ParseFailed \/ ScanProgram \/ ResolveImport \/ ReturnMap

SpecBuild == BuildInit /\ [][BuildNext]_vars

\* -------------------------------------------------------- map_next_dynamic
Layers == {None, Some("client"), Some("app-client"), Some("app-rsc")}
ModuleTypes ==
    {"NextDynamicEntryModule", "EcmascriptClientReferenceModule", "EcmascriptModuleAsset"}

\* A node of the graph: its module, its layer and the concrete type of the
\* module, which is what try_downcast_type tests.
Graphs ==
    UNION { [1..n -> [layer : Layers, ty : ModuleTypes]] : n \in 0..MaxNodes }

Node(i) == [module |-> i, layer |-> graph[i].layer, ty |-> graph[i].ty]

try_downcast_type(ty, node) ==
    IF node.ty = ty THEN Some(node.module) ELSE None

DynamicEntry(m) == [kind |-> "DynamicEntry", module |-> m]
ClientReference(m) == [kind |-> "ClientReference", module |-> m]

\* A mutant: the layer of a next/dynamic entry module is not looked at.
map_node_any_layer(node) ==
    IF try_downcast_type("NextDynamicEntryModule", node).some
    THEN Some(<<node.module, DynamicEntry(node.module)>>)
    ELSE IF try_downcast_type("EcmascriptClientReferenceModule", node).some
         THEN Some(<<node.module, ClientReference(node.module)>>)
         ELSE None

\* The closure map_next_dynamic runs on every node.
map_node(node) ==
    IF /\ node.layer.some
       /\ (node.layer.v = "app-client" \/ node.layer.v = "client")
       /\ try_downcast_type("NextDynamicEntryModule", node).some
    THEN Some(<<node.module, DynamicEntry(node.module)>>)
    ELSE IF try_downcast_type("EcmascriptClientReferenceModule", node).some
         THEN Some(<<node.module, ClientReference(node.module)>>)
         ELSE None

\* FxIndexMap::from_iter / collect: a key seen again keeps its place and
\* takes the later value.
IndexMapInsert(map, key, value) ==
    IF \E j \in 1..Len(map) : map[j].key = key
    THEN [j \in 1..Len(map) |->
            IF map[j].key = key THEN [key |-> key, value |-> value] ELSE map[j]]
    ELSE Append(map, [key |-> key, value |-> value])

RECURSIVE IndexMapFromIter(_, _, _)
IndexMapFromIter(pairs, i, map) ==
    IF i > Len(pairs) THEN map
    ELSE IndexMapFromIter(pairs, i + 1, IndexMapInsert(map, pairs[i][1], pairs[i][2]))

\* try_flat_join: the Some results, in the order of the nodes.
RECURSIVE FlatJoin(_, _)
FlatJoin(results, i) ==
    IF i > Len(results) THEN <<>>
    ELSE (IF results[i].some THEN <<results[i].v>> ELSE <<>>) \o FlatJoin(results, i + 1)

MapInit ==
    /\ ScanIdle
    /\ BuildIdle
    /\ ManifestIdle
    /\ graph \in Graphs
    /\ map_pc = "mapping"
    /\ actions = [i \in 1..Len(graph) |-> Pending]
    /\ dynamic_entries = <<>>

\* The closure of one node completes.
MapNode ==
    /\ map_pc = "mapping"
    /\ \E i \in 1..Len(graph) :
          /\ actions[i] = Pending
          /\ actions' = [actions EXCEPT ![i] = map_node(Node(i))]
    /\ UNCHANGED <<graph, map_pc, dynamic_entries, scan_vars, build_vars, manifest_vars>>

\* try_flat_join completes and the pairs are collected.
MapCollect ==
    /\ map_pc = "mapping"
    /\ \A i \in 1..Len(graph) : actions[i] # Pending
    /\ dynamic_entries' = IndexMapFromIter(FlatJoin(actions, 1), 1, <<>>)
    /\ map_pc' = "returned"
    /\ UNCHANGED <<graph, actions, scan_vars, build_vars, manifest_vars>>

MapNext == MapNode \/ MapCollect

SpecMap == MapInit /\ [][MapNext]_vars

\* --------------------------------------------- collect_next_dynamic_chunks
EntryModules == {"e1", "e2"}
ClientReferenceTypes == {"p1", "p2"}

\* What a panicking unwrap() leaves of the closure.
Panic == [ok |-> FALSE, panic |-> TRUE]

DynamicImportEntryLists ==
    UNION { [1..n -> [module : EntryModules,
                      parent : {None} \cup { Some(c) : c \in ClientReferenceTypes }]]
            : n \in 0..MaxEntries }

\* client_component_client_chunks: client reference -> (chunks, availability).
ClientReferencesChunksChoices ==
    { None,
      Some(("p1" :> <<"chunks_p1", "A1">>)),
      Some(("p1" :> <<"chunks_p1", "A1">>) @@ ("p2" :> <<"chunks_p2", "A2">>)) }

\* The chunking-service read that fails, for one entry module, if any.
Failures ==
    {None} \cup { Some(<<m, call>>) :
                    m \in EntryModules, call \in {"references", "assets", "id"} }

Number(n) == [kind |-> "Number", n |-> n]
String(s) == [kind |-> "String", s |-> s]

\* The ids the chunking context assigns to the entries' chunk items.
ModuleIdTables ==
    { ("e1" :> Number(1)) @@ ("e2" :> id) : id \in {Number(1), String("1"), String("x")} }

\* The client output roots tried: a directory, and the root of the file system.
ClientRelativePaths == { <<"out">>, <<>> }

\* async_loader_chunk_item(module, availability_info).references()
references(module, availability_info) ==
    CASE module = "e1" /\ availability_info = "Root" -> <<"r1", "r2">>
      [] module = "e1" /\ availability_info = "A1" -> <<"r2">>
      [] module = "e1" /\ availability_info = "A2" -> <<"r1">>
      [] module = "e2" /\ availability_info = "Root" -> <<"r3">>
      [] module = "e2" /\ availability_info = "A1" -> <<"r3", "r1">>
      [] module = "e2" /\ availability_info = "A2" -> <<>>

\* reference.resolve_reference().primary_output_assets(): assets, named by
\* the segments of their paths.
primary_output_assets(reference) ==
    CASE reference = "r1" -> << <<"out", "static", "a.js">>, <<"ext", "b.js">> >>
      [] reference = "r2" -> << <<"out", "static", "c.js">>, <<"out", "static", "a.js">> >>
      [] reference = "r3" -> << <<"ext", "b.js">>, <<"outer", "d.js">> >>

\* A mutant: every entry is loaded as if nothing were available yet.
availability_info_always_root(entry) == Ok("Root")

\* The availability info of the parent chunk group: both unwrap() calls
\* panic when the parent has no recorded chunks.
availability_info_of(entry) ==
    IF entry.parent.some
    THEN IF ~client_reference_chunks.some
         THEN Panic
         ELSE IF entry.parent.v \notin DOMAIN client_reference_chunks.v
              THEN Panic
              ELSE Ok(client_reference_chunks.v[entry.parent.v][2])
    ELSE Ok("Root")

\* .iter().flatten().copied().collect()
RECURSIVE Flatten(_, _)
Flatten(lists, i) ==
    IF i > Len(lists) THEN <<>> ELSE lists[i] \o Flatten(lists, i + 1)

Fails(module, call) == failing = Some(<<module, call>>)

\* The closure collect_next_dynamic_chunks runs for one entry.
collect_entry(entry) ==
    LET info == availability_info_of(entry)
    IN IF ~info.ok
       THEN [availability |-> None, outcome |-> Panic]
       ELSE LET refs == references(entry.module, info.v)
                async_chunk_group ==
                    Flatten([i \in 1..Len(refs) |-> primary_output_assets(refs[i])], 1)
            IN [availability |-> Some(info.v),
                outcome |->
                    IF Fails(entry.module, "references") THEN Err
                    ELSE IF Fails(entry.module, "assets") /\ refs # <<>> THEN Err
                    ELSE IF Fails(entry.module, "id") THEN Err
                    ELSE Ok(<<entry.module,
                              <<module_ids[entry.module], async_chunk_group>>>>)]

ChunksStart ==
    /\ chunks_pc = "joining"
    /\ futures = [i \in 1..Len(dynamic_import_entries) |-> Pending]
    /\ availability = [i \in 1..Len(dynamic_import_entries) |-> None]
    /\ dynamic_import_chunks = None
    /\ emitted = 0
    /\ loadable_manifest = <<>>
    /\ document = None

ManifestInit ==
    /\ ScanIdle
    /\ BuildIdle
    /\ MapIdle
    /\ dynamic_import_entries \in DynamicImportEntryLists
    /\ client_reference_chunks \in ClientReferencesChunksChoices
    /\ failing \in Failures
    /\ module_ids \in ModuleIdTables
    /\ client_relative_path \in ClientRelativePaths
    /\ ChunksStart
    /\ run = 1
    /\ previous_document = None

not_manifest_vars == <<scan_vars, build_vars, map_vars>>

\* The closure of one entry completes.
CollectEntry ==
    /\ chunks_pc = "joining"
    /\ \E i \in 1..Len(dynamic_import_entries) :
          /\ futures[i] = Pending
          /\ LET done == collect_entry(dynamic_import_entries[i])
             IN /\ futures' = [futures EXCEPT ![i] = done.outcome]
                /\ availability' = [availability EXCEPT ![i] = done.availability]
    /\ UNCHANGED <<input_vars, chunks_pc, dynamic_import_chunks, emit_vars,
                   build_no_vars, not_manifest_vars>>

\* try_join().await? : one closure failed, the function returns its error.
JoinFails ==
    /\ chunks_pc = "joining"
    /\ \E i \in 1..Len(dynamic_import_entries) : futures[i] # Pending /\ ~futures[i].ok
    /\ dynamic_import_chunks' = Some(Err)
    /\ chunks_pc' = "returned"
    /\ UNCHANGED <<input_vars, futures, availability, emit_vars,
                   build_no_vars, not_manifest_vars>>

\* FxIndexMap::from_iter(dynamic_import_chunks)
JoinedChunks ==
    IndexMapFromIter([i \in 1..Len(futures) |-> futures[i].v], 1, <<>>)

\* try_join() completes with every closure's value.
JoinCollects ==
    /\ chunks_pc = "joining"
    /\ \A i \in 1..Len(dynamic_import_entries) : futures[i] # Pending /\ futures[i].ok
    /\ dynamic_import_chunks' = Some(Ok(JoinedChunks))
    /\ chunks_pc' = "returned"
    /\ UNCHANGED <<input_vars, futures, availability, emit_vars,
                   build_no_vars, not_manifest_vars>>

\* ------------------------------------------ create_react_loadable_manifest
\* FileSystemPath::get_path_to: the path of inner below this directory.
get_path_to(root, inner) ==
    IF /\ Len(inner) >= Len(root)
       /\ SubSeq(inner, 1, Len(root)) = root
       /\ (root = <<>> \/ Len(inner) > Len(root))
    THEN Some(SubSeq(inner, Len(root) + 1, Len(inner)))
    ELSE None

\* ModuleId's to_string()
module_id_to_string(module_id) ==
    IF module_id.kind = "Number" THEN ToString(module_id.n) ELSE module_id.s

\* A mutant: the files stop at the first asset outside the root.
files_until_outside(chunk_output) ==
    LET RECURSIVE Until(_)
        Until(i) ==
            IF i > Len(chunk_output) THEN <<>>
            ELSE LET path == get_path_to(client_relative_path, chunk_output[i])
                 IN IF path.some THEN <<path.v>> \o Until(i + 1) ELSE <<>>
    IN Until(1)

\* chunk_output.iter().map(get_path_to).try_flat_join()
files_of(chunk_output) ==
    FlatJoin([i \in 1..Len(chunk_output) |->
                 get_path_to(client_relative_path, chunk_output[i])], 1)

\* A mutant: an id already in the map keeps its item.
HashMapInsertIfAbsent(map, key, value) ==
    [k \in DOMAIN map \cup {key} |-> IF k \in DOMAIN map THEN map[k] ELSE value]

\* HashMap::insert
HashMapInsert(map, key, value) ==
    [k \in DOMAIN map \cup {key} |-> IF k = key THEN value ELSE map[k]]

\* One iteration of the loop over the aggregated entries.
EmitEntry ==
    /\ chunks_pc = "returned"
    /\ dynamic_import_chunks.v.ok
    /\ emitted < Len(dynamic_import_chunks.v.v)
    /\ LET entry == dynamic_import_chunks.v.v[emitted + 1]
           id == module_id_to_string(entry.value[1])
           manifest_item == [id |-> id, files |-> files_of(entry.value[2])]
       IN loadable_manifest' = HashMapInsert(loadable_manifest, id, manifest_item)
    /\ emitted' = emitted + 1
    /\ UNCHANGED <<input_vars, chunk_vars, document, build_no_vars, not_manifest_vars>>

\* The orders in which a HashMap with these keys can be iterated.
IterationOrders(keys) ==
    { order \in [1..Cardinality(keys) -> keys] :
        \A i, j \in 1..Cardinality(keys) : order[i] = order[j] => i = j }

\* serde_json::to_string_pretty(&loadable_manifest): the members are written
\* in the iteration order of the HashMap, which its RandomState decides.
Serialize ==
    /\ chunks_pc = "returned"
    /\ dynamic_import_chunks.v.ok
    /\ emitted = Len(dynamic_import_chunks.v.v)
    /\ \E order \in IterationOrders(DOMAIN loadable_manifest) :
          document' = Some([i \in 1..Len(order) |->
                               <<order[i], loadable_manifest[order[i]]>>])
    /\ chunks_pc' = "written"
    /\ UNCHANGED <<input_vars, futures, availability, dynamic_import_chunks,
                   emitted, loadable_manifest, build_no_vars, not_manifest_vars>>

\* A second build over the same graph, chunk scopes and output root.
Rebuild ==
    /\ chunks_pc = "written"
    /\ run = 1
    /\ run' = 2
    /\ previous_document' = document
    /\ chunks_pc' = "joining"
    /\ futures' = [i \in 1..Len(dynamic_import_entries) |-> Pending]
    /\ availability' = [i \in 1..Len(dynamic_import_entries) |-> None]
    /\ dynamic_import_chunks' = None
    /\ emitted' = 0
    /\ loadable_manifest' = <<>>
    /\ document' = None
    /\ UNCHANGED <<input_vars, not_manifest_vars>>

ManifestNext == CollectEntry \/ JoinFails \/ JoinCollects \/ EmitEntry \/ Serialize

SpecManifest == ManifestInit /\ [][ManifestNext]_vars

RebuildNext == ManifestNext \/ Rebuild

SpecRebuild == ManifestInit /\ [][RebuildNext]_vars

\* ------------------------------------------------- scanner: the properties
\* Every sub-expression of e, e included.
RECURSIVE SubExprs(_)
SubExprs(e) ==
    {e} \cup
    CASE e.k = "Call" ->
            (IF e.callee.k = "Import" THEN {} ELSE SubExprs(e.callee))
            \cup UNION { SubExprs(e.args[i]) : i \in 1..Len(e.args) }
      [] e.k = "Arrow" -> SubExprs(e.body)
      [] OTHER -> {}

\* m is import("s") with the string literal s as its argument.
IsImportOf(m, s) ==
    /\ m.k = "Call"
    /\ m.callee.k = "Import"
    /\ Len(m.args) > 0
    /\ m.args[1] = Str(s)

IsWrapperImport(item) ==
    /\ item.k = "ImportDecl"
    /\ item.src = "next/dynamic"
    /\ Len(item.specifiers) > 0
    /\ item.specifiers[1].kind = "default"

\* The local names the program binds by a default import of the wrapper.
WrapperLocals(p) ==
    { p[i].specifiers[1].local : i \in { j \in 1..Len(p) : IsWrapperImport(p[j]) } }

\* C6: a literal is in import_sources only if a statement already visited
\* holds a call whose callee is an identifier bound by a default import of
\* the wrapper package and which contains import("<that literal>"); a module
\* without a wrapper import yields nothing.
C6_ScannerSound ==
    /\ (WrapperLocals(program) = {} => import_sources = <<>>)
    /\ \A n \in 1..Len(import_sources) :
          \E i \in 1..(pos - 1) :
             /\ program[i].k = "ExprStmt"
             /\ \E c \in SubExprs(program[i].expr) :
                   /\ c.k = "Call"
                   /\ c.callee.k = "Ident"
                   /\ c.callee.sym \in WrapperLocals(program)
                   /\ \E m \in SubExprs(c) : IsImportOf(m, import_sources[n])

\* A finished scan of a module with a bare import("./y") and a wrapped
\* import("./x"): only "./x" was recorded.
C6_Witness ==
    /\ scan_pc = "scanned"
    /\ import_sources = <<"./x">>
    /\ \E i \in 1..Len(program) :
          program[i] = ExprStmt(Call(CalleeImport, <<Str("./y")>>))

\* e is exactly l(() => import("<literal>")).
IsForm(e, l) ==
    /\ e.k = "Call"
    /\ e.callee.k = "Ident"
    /\ e.callee.sym = l
    /\ Len(e.args) = 1
    /\ e.args[1].k = "Arrow"
    /\ e.args[1].body.k = "Call"
    /\ e.args[1].body.callee.k = "Import"
    /\ Len(e.args[1].body.args) = 1
    /\ e.args[1].body.args[1].k = "Str"

\* The literals of the calls of that form in e, in source order.
RECURSIVE FormLits(_, _)
RECURSIVE FormLitsArgs(_, _, _)
FormLits(e, l) ==
    IF IsForm(e, l) THEN <<e.args[1].body.args[1].value>>
    ELSE CASE e.k = "Call" ->
                (IF e.callee.k = "Import" THEN <<>> ELSE FormLits(e.callee, l))
                \o FormLitsArgs(e.args, 1, l)
           [] e.k = "Arrow" -> FormLits(e.body, l)
           [] OTHER -> <<>>

FormLitsArgs(args, i, l) ==
    IF i > Len(args) THEN <<>>
    ELSE FormLits(args[i], l) \o FormLitsArgs(args, i + 1, l)

\* The import() calls of e that are not the body of a call of that form.
RECURSIVE ImportsOutsideForms(_, _)
ImportsOutsideForms(e, l) ==
    IF IsForm(e, l) THEN {}
    ELSE CASE e.k = "Call" ->
                (IF e.callee.k = "Import" THEN {e} ELSE ImportsOutsideForms(e.callee, l))
                \cup UNION { ImportsOutsideForms(e.args[i], l) : i \in 1..Len(e.args) }
           [] e.k = "Arrow" -> ImportsOutsideForms(e.body, l)
           [] OTHER -> {}

\* The module default-imports the wrapper as l first and only once, and every
\* call of l is of the form l(() => import(s)) or carries no import() of its own.
OnlyFormCalls(p, l) ==
    /\ Len(p) > 0
    /\ IsWrapperImport(p[1])
    /\ WrapperLocals(p) = {l}
    /\ \A i \in 1..Len(p) :
          p[i].k = "ExprStmt" =>
             \A c \in SubExprs(p[i].expr) :
                (c.k = "Call" /\ c.callee.k = "Ident" /\ c.callee.sym = l /\ ~IsForm(c, l))
                   => ImportsOutsideForms(c, l) = {}

RECURSIVE FormLitsUpTo(_, _, _)
FormLitsUpTo(p, n, l) ==
    IF n = 0 THEN <<>>
    ELSE FormLitsUpTo(p, n - 1, l)
         \o (IF p[n].k = "ExprStmt" THEN FormLits(p[n].expr, l) ELSE <<>>)

\* C7: in such a module the scanner has recorded exactly the literals of the
\* calls l(() => import(s)) of the statements visited so far, one per call, in
\* source order, wherever the calls are nested.
C7_ScannerComplete ==
    \A l \in WrapperLocals(program) :
        OnlyFormCalls(program, l) =>
            import_sources = FormLitsUpTo(program, pos - 1, l)

\* A finished scan that found two literals, one of them in a wrapper call
\* nested in the argument of another wrapper call.
C7_Witness ==
    /\ scan_pc = "scanned"
    /\ OnlyFormCalls(program, "L")
    /\ Len(import_sources) >= 2
    /\ \E i \in 1..Len(program) :
          program[i] = ExprStmt(Call(Ident("L"), <<Wrapped("L", "./y")>>))

\* The binding in force when item i is visited: the local name of the last
\* default import of the wrapper before i.
BindingAt(p, i) ==
    LET js == { j \in 1..(i - 1) : IsWrapperImport(p[j]) }
    IN IF js = {} THEN None
       ELSE Some(p[CHOOSE j \in js : \A h \in js : h <= j].specifiers[1].local)

IsTopForm(item) ==
    /\ item.k = "ExprStmt"
    /\ \E l \in {"L", "M", "K"} : IsForm(item.expr, l)

RECURSIVE RecordedUpTo(_, _)
RecordedUpTo(p, n) ==
    IF n = 0 THEN <<>>
    ELSE RecordedUpTo(p, n - 1)
         \o (IF IsTopForm(p[n]) /\ BindingAt(p, n) = Some(p[n].expr.callee.sym)
             THEN <<p[n].expr.args[1].body.args[1].value>>
             ELSE <<>>)

\* C10: the scanner tracks the local name of the most recently visited default
\* import of the wrapper, and a wrapper call a(() => import(s)) is recorded
\* exactly when a is the binding tracked when the call is visited.
C10_SinglePassBinding ==
    /\ dynamic_ident = BindingAt(program, pos)
    /\ (\A i \in 1..Len(program) : program[i].k = "ExprStmt" => IsTopForm(program[i]))
          => import_sources = RecordedUpTo(program, pos - 1)

\* The wrapper is imported as L, then as M, then L(() => import(s)) is
\* visited: nothing is recorded.
C10_Witness ==
    /\ scan_pc = "scanned"
    /\ Len(program) = 3
    /\ program[1] = ImportDecl("next/dynamic", <<Default("L")>>)
    /\ program[2] = ImportDecl("next/dynamic", <<Default("M")>>)
    /\ IsForm(program[3].expr, "L")
    /\ import_sources = <<>>
    /\ dynamic_ident = Some("M")

\* ------------------------------------------------ resolver: the properties
\* The literals of the program's wrapper calls, in source order.
ScannedLiterals(p) == FormLitsUpTo(p, Len(p), "L")

HasTarget(s) == esm_resolve[s].ok /\ esm_resolve[s].v.some

\* C8: the pairs returned are exactly the scanned literals that resolve to a
\* module, each with its module, in scan order: a literal without a module is
\* left out and the literals after it are still resolved.
C8_ResolvedIndependently ==
    (build_pc = "returned" /\ build_result.v.ok /\ build_result.v.v.some) =>
        LET lits == ScannedLiterals(program)
            kept == { i \in 1..Len(lits) : HasTarget(lits[i]) }
            pairs == build_result.v.v.v
        IN /\ Len(pairs) = Cardinality(kept)
           /\ \A i \in kept :
                 pairs[Cardinality({ j \in kept : j <= i })]
                    = <<lits[i], esm_resolve[lits[i]].v.v>>

\* Three literals were scanned, the second has no module, the first and the
\* third were returned.
C8_Witness ==
    /\ build_pc = "returned"
    /\ build_result.v.ok
    /\ build_result.v.v.some
    /\ Len(ScannedLiterals(program)) = 3
    /\ ~esm_resolve[ScannedLiterals(program)[2]].v.some
    /\ Len(build_result.v.v.v) = 2

\* ---------------------------------------------- classifier: the properties
IsClientReferenceModule(node) == node.ty = "EcmascriptClientReferenceModule"
IsDynamicEntryModule(node) == node.ty = "NextDynamicEntryModule"
InClientLayer(node) == node.layer \in {Some("client"), Some("app-client")}

Aggregated == dynamic_import_chunks.some /\ dynamic_import_chunks.v.ok

\* The id string of the i-th aggregated entry.
IdOf(i) == module_id_to_string(dynamic_import_chunks.v.v[i].value[1])
AssetsOf(i) == dynamic_import_chunks.v.v[i].value[2]

\* The last of the entries emitted so far that has the same id as entry i.
IsLastWithId(i) == \A j \in 1..emitted : IdOf(j) = IdOf(i) => j <= i

\* C1: two builds over the same entries, chunk scopes and output root write
\* the same document, member for member and in the same order.
C1_ByteIdentical ==
    (run = 2 /\ chunks_pc = "written") => document = previous_document

\* The last entry of the list that is for the same module as entry i.
IsLastOfModule(i) ==
    \A j \in 1..Len(dynamic_import_entries) :
        dynamic_import_entries[j].module = dynamic_import_entries[i].module => j <= i

\* C3: once the aggregation has returned, every entry whose own closure
\* succeeds is in the returned map with its id and its assets, whatever
\* happened to the other entries.
C3_FailureIsolated ==
    chunks_pc # "joining" =>
        \A i \in 1..Len(dynamic_import_entries) :
            LET own == collect_entry(dynamic_import_entries[i])
            IN (own.outcome.ok /\ IsLastOfModule(i)) =>
                  /\ Aggregated
                  /\ \E a \in 1..Len(dynamic_import_chunks.v.v) :
                        /\ dynamic_import_chunks.v.v[a].key = own.outcome.v[1]
                        /\ dynamic_import_chunks.v.v[a].value = own.outcome.v[2]

\* The same statement for the builds in which no closure fails: here the
\* aggregation keeps every entry.
EveryEntryKeptWithoutFailure ==
    (\A i \in 1..Len(dynamic_import_entries) :
        collect_entry(dynamic_import_entries[i]).outcome.ok) => C3_FailureIsolated

\* path lies below the client output root.
UnderRoot(path) ==
    \E suffix \in { SubSeq(path, n, Len(path)) : n \in 1..(Len(path) + 1) } :
        /\ path = client_relative_path \o suffix
        /\ (suffix # <<>> \/ client_relative_path = <<>>)

\* C4: every entry the emitter has processed has its id in the manifest, and
\* the files of an id are the assets of its entry that lie below the client
\* output root, as paths relative to it, in their order; the assets outside
\* the root are missing and nothing else is.
C4_OutsideAssetsDropped ==
    Aggregated =>
        \A i \in 1..emitted :
            /\ IdOf(i) \in DOMAIN loadable_manifest
            /\ IsLastWithId(i) =>
                  LET files == loadable_manifest[IdOf(i)].files
                      assets == AssetsOf(i)
                      kept == { j \in 1..Len(assets) : UnderRoot(assets[j]) }
                  IN /\ Len(files) = Cardinality(kept)
                     /\ \A j \in kept :
                           client_relative_path \o files[Cardinality({ h \in kept : h <= j })]
                              = assets[j]

\* A written manifest with an entry all of whose assets were dropped and an
\* entry that lost only some of them.
C4_Witness ==
    /\ chunks_pc = "written"
    /\ client_relative_path = <<"out">>
    /\ emitted = 2
    /\ \E i, j \in 1..emitted :
          /\ AssetsOf(i) # <<>>
          /\ loadable_manifest[IdOf(i)].files = <<>>
          /\ IdOf(j) # IdOf(i)
          /\ loadable_manifest[IdOf(j)].files # <<>>
          /\ Len(loadable_manifest[IdOf(j)].files) < Len(AssetsOf(j))

\* C5: the manifest has exactly the ids of the entries processed so far as
\* its keys, every item carries its key as id, and the item of an id is the
\* one built from the last processed entry with that id.
C5_LastWriteWins ==
    /\ DOMAIN loadable_manifest =
          IF Aggregated THEN { IdOf(i) : i \in 1..emitted } ELSE {}
    /\ \A k \in DOMAIN loadable_manifest : loadable_manifest[k].id = k
    /\ Aggregated =>
          \A i \in 1..emitted :
             IsLastWithId(i) =>
                loadable_manifest[IdOf(i)] =
                   [id |-> IdOf(i), files |-> files_of(AssetsOf(i))]

\* Two entries for different modules with the same id string and different
\* files: the written manifest has one key and the second entry's files.
C5_Witness ==
    /\ chunks_pc = "written"
    /\ emitted = 2
    /\ dynamic_import_chunks.v.v[1].key # dynamic_import_chunks.v.v[2].key
    /\ IdOf(1) = IdOf(2)
    /\ files_of(AssetsOf(1)) # files_of(AssetsOf(2))
    /\ DOMAIN loadable_manifest = {IdOf(2)}
    /\ loadable_manifest[IdOf(2)].files = files_of(AssetsOf(2))

HasRecordedScope(c) ==
    client_reference_chunks.some /\ c \in DOMAIN client_reference_chunks.v

\* C9: the availability info handed to the loader for an entry is Root when
\* the entry has no parent, and the one recorded for its parent otherwise; two
\* entries with the same parent get the same one.
C9_ScopeFromParent ==
    /\ \A i \in 1..Len(dynamic_import_entries) :
          futures[i] # Pending =>
             LET entry == dynamic_import_entries[i]
             IN /\ ~entry.parent.some => availability[i] = Some("Root")
                /\ (entry.parent.some /\ HasRecordedScope(entry.parent.v))
                      => availability[i] = Some(client_reference_chunks.v[entry.parent.v][2])
                /\ (entry.parent.some /\ ~HasRecordedScope(entry.parent.v))
                      => availability[i] = None
    /\ \A i, j \in 1..Len(dynamic_import_entries) :
          (/\ futures[i] # Pending
           /\ futures[j] # Pending
           /\ dynamic_import_entries[i].parent = dynamic_import_entries[j].parent)
             => availability[i] = availability[j]

\* Two different entry modules below the same client reference, both
\* aggregated with that reference's availability info.
C9_Witness ==
    /\ Len(dynamic_import_entries) = 2
    /\ dynamic_import_entries[1].module # dynamic_import_entries[2].module
    /\ dynamic_import_entries[1].parent = Some("p1")
    /\ dynamic_import_entries[2].parent = Some("p1")
    /\ futures[1] # Pending
    /\ futures[2] # Pending
    /\ availability = <<Some("A1"), Some("A1")>>

====
